---- MODULE Spec2Model ----
(***************************************************************************)
(* Address intake endpoint POST /api/monad-address of WoollyEggs.           *)
(*                                                                         *)
(* The repository holds three versions of the endpoint's handler:          *)
(*   "kv"   src/api/monad-address.ts lines 1-84: allowlist = BASE_SET,      *)
(*          confirmed set = KV set "we:confirmed";                         *)
(*   "kvpg" src/api/monad-address.ts lines 86-196: allowlist = table        *)
(*          allowlist_addresses when a database URL is configured, else    *)
(*          BASE_SET; confirmed set = KV set "we:confirmed";               *)
(*   "pg"   src/unnamed/part_000: no allowlist, confirmed set = table       *)
(*          monad_addresses.                                               *)
(* variant says which one is deployed. A request is handled in steps: the  *)
(* synchronous prefix of the handler, then one step per awaited storage    *)
(* call, so that concurrent requests interleave at the awaits. A storage   *)
(* call either returns or throws.                                          *)
(*                                                                         *)
(* Strings are sequences of one-character strings. A request body of type  *)
(* string is represented by the outcome of JSON.parse on it.               *)
(***************************************************************************)
EXTENDS Integers, Sequences, FiniteSets, TLC

\* Number of requests the endpoint receives in one behaviour.
MaxRequests == 2

\* {40} in ADDRESS_REGEX: the number of hex digits of an address.
HexLen == 40

VARIABLES
    variant,              \* which version of the handler is deployed
    env,                  \* process.env: which settings are present
    BASE_ADDRESSES,       \* src/lib/baseAddresses: the pasted allowlist
    allowlist_addresses,  \* table allowlist_addresses (column address)
    we_confirmed,         \* KV set "we:confirmed"
    monad_addresses,      \* table monad_addresses: sequence of rows
    tableExists,          \* whether table monad_addresses exists
    reqs,                 \* the requests received so far, in order of arrival
    nresp                 \* number of responses sent so far

\* The reveal component of the page (MouseReveal), one mounted instance.
VARIABLES
    component,            \* which version of the component the page uses
    supportsWebgl,        \* whether the browser gives a WebGL context
    images,               \* for each reveal image, whether its file can be loaded
    mounted,              \* the component's effect has run and not been cleaned up
    pc,                   \* where the WebGL initialisation stands
    textures,             \* for each image, the promise of its texture
    uniforms,             \* uTop and uUnder of the shader material
    topLoaded,            \* React state topLoaded
    underLoaded,          \* React state underLoaded
    useCssFallback,       \* React state useCssFallback
    cancelled,            \* let cancelled (part_003: destroyed)
    scheduled,            \* animation frame callbacks requested and not yet run
    frames,               \* number of renderer.render calls
    cssFrames,            \* number of runs of the CSS fallback loop's tick
    disposed,             \* the resources dispose() was called on
    listeners             \* the event listeners registered and not removed

\* The endpoint's state and the page's.
Server == <<variant, env, BASE_ADDRESSES, allowlist_addresses, we_confirmed,
            monad_addresses, tableExists, reqs, nresp>>
Browser == <<component, supportsWebgl, images, mounted, pc, textures, uniforms,
             topLoaded, underLoaded, useCssFallback, cancelled, scheduled,
             frames, cssFrames, disposed, listeners>>

\* The allowlist import (scripts/import_allowlist.mjs), one run of the script.
VARIABLES
    script                \* the run: its files, its locals, its connection

\* The address form and the pointer tracking of the component.
VARIABLES
    form,                 \* the form: its input, its status, its requests in flight
    pointer               \* the pointers, and what the handlers hold of them
Controls == <<form, pointer>>

vars == <<Server, Browser, script, Controls>>

-----------------------------------------------------------------------------
(* Strings *)

UpperChars == <<"A", "B", "C", "D", "E", "F", "G", "H", "I", "J", "K", "L", "M",
                "N", "O", "P", "Q", "R", "S", "T", "U", "V", "W", "X", "Y", "Z">>
LowerChars == <<"a", "b", "c", "d", "e", "f", "g", "h", "i", "j", "k", "l", "m",
                "n", "o", "p", "q", "r", "s", "t", "u", "v", "w", "x", "y", "z">>

\* The characters String.prototype.trim removes (those the inputs use).
WhiteSpace == {" ", "\t", "\n", "\r"}

\* [a-fA-F0-9]
HexChars == {"0", "1", "2", "3", "4", "5", "6", "7", "8", "9",
             "a", "b", "c", "d", "e", "f", "A", "B", "C", "D", "E", "F"}

\* The lowercase letter of each uppercase letter.
LowerOf ==
    [c \in {UpperChars[i] : i \in 1..Len(UpperChars)} |->
        LowerChars[CHOOSE i \in 1..Len(UpperChars) : UpperChars[i] = c]]

toLowerCaseChar(c) == IF c \in DOMAIN LowerOf THEN LowerOf[c] ELSE c

\* String.prototype.toLowerCase
toLowerCase(s) == [i \in 1..Len(s) |-> toLowerCaseChar(s[i])]

RECURSIVE trimStart(_)
trimStart(s) ==
    IF s # <<>> /\ Head(s) \in WhiteSpace THEN trimStart(Tail(s)) ELSE s

RECURSIVE trimEnd(_)
trimEnd(s) ==
    IF s # <<>> /\ s[Len(s)] \in WhiteSpace
    THEN trimEnd(SubSeq(s, 1, Len(s) - 1))
    ELSE s

\* String.prototype.trim
trim(s) == trimEnd(trimStart(s))

\* Faulty variant of ADDRESS_REGEX.test: the pattern without its $ anchor.
ADDRESS_REGEX_unanchored(s) ==
    /\ Len(s) >= 2 + HexLen
    /\ s[1] = "0"
    /\ s[2] = "x"
    /\ \A i \in 3..(2 + HexLen) : s[i] \in HexChars

\* ADDRESS_REGEX.test(s), /^0x[a-fA-F0-9]{40}$/
ADDRESS_REGEX_test(s) ==
    /\ Len(s) = 2 + HexLen
    /\ s[1] = "0"
    /\ s[2] = "x"
    /\ \A i \in 3..Len(s) : s[i] \in HexChars

-----------------------------------------------------------------------------
(* Requests: methods and bodies *)

Zeros(n) == [i \in 1..n |-> "0"]

\* "0x" + zeros + tail: a string of 2 + HexLen characters.
Hex(tail) == <<"0", "x">> \o Zeros(HexLen - Len(tail)) \o tail

AddrA == Hex(<<"a", "b">>)            \* an address, lowercase
AddrA_upper == Hex(<<"A", "b">>)      \* the same digits in another letter case
AddrB == Hex(<<"c", "d">>)            \* another address
AddrA_padded == <<" ">> \o AddrA_upper \o <<"\n">>   \* surrounded by whitespace
BadDigit == Hex(<<"Z", "Z">>)         \* not hex digits
TooLong == AddrA \o <<"0">>           \* 41 digits
UpperX == <<"0", "X">> \o Zeros(HexLen)   \* 0X prefix

\* JSON values
Str(s) == [t |-> "string", s |-> s]
Num == [t |-> "number"]
Null == [t |-> "null"]
Obj(fields) == [t |-> "object", v |-> fields]

\* req.body as the platform hands it over: undefined, a parsed object, a number,
\* or a string, represented by what JSON.parse does with it.
Undefined == [t |-> "undefined"]
Text(outcome) == [t |-> "string", parse |-> outcome]
SyntaxError == [ok |-> FALSE]
Parses(value) == [ok |-> TRUE, value |-> value]

RawStrings == {AddrA, AddrA_upper, AddrB, BadDigit, TooLong, UpperX}

Bodies ==
    {Obj([address |-> Str(s)]) : s \in RawStrings}
    \cup {Undefined, Obj([address |-> Num]), Obj([other |-> Num]),
          Text(SyntaxError), Text(Parses(Null)),
          Text(Parses(Obj([address |-> Str(AddrA_padded)])))}

NoMethod == "undefined"
Methods == {"POST", "GET", NoMethod}

\* The requests a client may send: any body by POST, some bodies otherwise.
Inputs ==
    {[method |-> "POST", body |-> b] : b \in Bodies}
    \cup {[method |-> "GET", body |-> b] :
            b \in {Undefined, Obj([address |-> Str(AddrA)])}}
    \cup {[method |-> NoMethod, body |-> Obj([address |-> Str(AddrA)])]}

\* The field address of a JSON value, as parseAddress reads it.
addressField(value) ==
    IF value.t = "object" /\ "address" \in DOMAIN value.v
       /\ value.v.address.t = "string"
    THEN trim(value.v.address.s)
    ELSE <<>>

\* parseAddress(req): the trimmed string, or "" when there is none.
parseAddress(body) ==
    IF body.t \in {"undefined", "null"}
    THEN <<>>
    ELSE IF body.t = "object" /\ "address" \in DOMAIN body.v
    THEN addressField(body)
    ELSE IF body.t = "string"
    THEN IF body.parse.ok /\ body.parse.value.t \notin {"null", "undefined"}
         THEN addressField(body.parse.value)
         ELSE <<>>
    ELSE <<>>

-----------------------------------------------------------------------------
(* Environment and stores *)

\* hasKvConfig(): KV_REST_API_URL and KV_REST_API_TOKEN are both set.
hasKvConfig == env.KV_REST_API_URL /\ env.KV_REST_API_TOKEN

\* getDatabaseUrl() is not "": one of the connection strings is set (of the four
\* the code reads, the model's environments set DATABASE_URL or POSTGRES_URL).
getDatabaseUrl == env.DATABASE_URL \/ env.POSTGRES_URL

\* part_000: POSTGRES_URL or POSTGRES_PRISMA_URL is set.
hasPostgresConfig == env.POSTGRES_URL \/ env.POSTGRES_PRISMA_URL

\* BASE_SET = new Set(BASE_ADDRESSES.map((a) => a.trim().toLowerCase()))
BASE_SET == {toLowerCase(trim(a)) : a \in BASE_ADDRESSES}

\* Faulty variant of the query: it matches no row.
allowlistRowCount_none(address) == 0

\* SELECT 1 FROM allowlist_addresses WHERE address = $1 LIMIT 1: rowCount
allowlistRowCount(address) ==
    IF address \in allowlist_addresses THEN 1 ELSE 0

\* What a failing storage call throws: the pg and KV clients reject with an
\* Error that carries a message.
Thrown == {[isError |-> TRUE, message |-> "connect ECONNREFUSED"]}

\* process.env as deployed: everything set, only KV, KV token missing with a
\* database, only the Prisma URL.
EnvOf(kvUrl, kvToken, dbUrl, pgUrl, prismaUrl) ==
    [KV_REST_API_URL |-> kvUrl, KV_REST_API_TOKEN |-> kvToken,
     DATABASE_URL |-> dbUrl, POSTGRES_URL |-> pgUrl, POSTGRES_PRISMA_URL |-> prismaUrl]

Envs == {EnvOf(TRUE, TRUE, TRUE, TRUE, FALSE),
         EnvOf(TRUE, TRUE, FALSE, FALSE, FALSE),
         EnvOf(TRUE, FALSE, TRUE, FALSE, FALSE),
         EnvOf(FALSE, FALSE, FALSE, FALSE, TRUE)}

Variants == {"kv", "kvpg", "pg"}

-----------------------------------------------------------------------------
(* The handler *)

\* A request as received: nothing done yet.
NewRequest(in) ==
    [method |-> in.method, body |-> in.body, pc |-> "start",
     address |-> <<>>, normalized |-> <<>>,
     conn |-> "none",
     res |-> <<>>,
     \* what the handler did for this request
     parsed |-> FALSE, lookups |-> 0, writes |-> 0, ddl |-> 0, threw |-> FALSE,
     startedAfter |-> nresp, respIdx |-> 0]

\* Faulty variant of the response: a count kept in the process between requests
\* decides the status (every request after the first answered one is refused).
Send_counted(q, code, payload) ==
    [q EXCEPT !.pc = "done",
              !.res = Append(@, [status |-> IF nresp > 0 THEN 429 ELSE code,
                                 json |-> payload]),
              !.respIdx = nresp + 1]

\* res.status(code).json(payload); return
Send(q, code, payload) ==
    [q EXCEPT !.pc = "done",
              !.res = Append(@, [status |-> code, json |-> payload]),
              !.respIdx = nresp + 1]

\* Faulty variant of the method test: GET is let through as well.
methodNotAllowed_get(method) == method \notin {"POST", "GET"}

\* req.method !== "POST"
methodNotAllowed(method) == method # "POST"

\* Faulty variant of the catch block: the error is answered with status 200.
catchResponse_ok(error, fallback) ==
    [status |-> 200,
     json |-> [ok |-> FALSE,
               error |-> IF error.isError THEN error.message ELSE fallback]]

\* catch (error): error instanceof Error ? error.message : fallback, status 500
catchResponse(error, fallback) ==
    [status |-> 500,
     json |-> [ok |-> FALSE,
               error |-> IF error.isError THEN error.message ELSE fallback]]

KvFallback == "Unexpected KV error"
PgFallback == "Unexpected database error while saving address."
PgNotConfigured ==
    "Vercel Postgres is not configured. Connect Postgres in your Vercel dashboard and redeploy."

\* A storage call of the request threw.
Throws(q) == [q EXCEPT !.threw = TRUE]

\* Faulty variant of the handler without its catch: the error leaves the
\* handler and the request is never answered.
Catch_escapes(q, error, fallback) == [q EXCEPT !.pc = "rejected"]

Catch(q, error, fallback) ==
    LET r == catchResponse(error, fallback)
    IN  Send(q, r.status, r.json)

\* if (!verified) { ... }: the answer to an address that is not allowlisted.
notVerifiedResponse ==
    IF variant = "kv"
    THEN [status |-> 200, json |-> [ok |-> TRUE, verified |-> FALSE]]
    ELSE [status |-> 400, json |-> [ok |-> FALSE, error |-> "error", verified |-> FALSE]]

\* From the allowlist decision on: the not-verified answer, or
\* storeConfirmedAddress up to its await (no KV configuration: it returns false).
afterVerified(q, verified) ==
    IF ~verified
    THEN Send(q, notVerifiedResponse.status, notVerifiedResponse.json)
    ELSE IF ~hasKvConfig
    THEN Send(q, 200, [ok |-> TRUE, verified |-> TRUE, inserted |-> FALSE])
    ELSE [q EXCEPT !.pc = "sadd"]

\* The try block up to its first await, by version.
tryBlock(q) ==
    IF variant = "pg"
    THEN \* no normalisation, no allowlist: straight to the queries
         [q EXCEPT !.pc = "create"]
    ELSE LET n == [q EXCEPT !.normalized = toLowerCase(q.address)]
         IN  IF variant = "kvpg" /\ getDatabaseUrl
             THEN [n EXCEPT !.pc = "lookup"]
             ELSE afterVerified([n EXCEPT !.lookups = @ + 1],
                                n.normalized \in BASE_SET)

\* handler(req, res) up to its first await.
handlerStart(q0) ==
    IF methodNotAllowed(q0.method)
    THEN Send(q0, 405, [ok |-> FALSE, error |-> "Method not allowed. Use POST."])
    ELSE LET q == [q0 EXCEPT !.parsed = TRUE, !.address = parseAddress(q0.body)]
         IN  IF ~ADDRESS_REGEX_test(q.address)
             THEN Send(q, 400, [ok |-> FALSE,
                                error |-> "Invalid Monad EVM address format."])
             ELSE IF variant = "pg" /\ ~hasPostgresConfig
             THEN Send(q, 500, [ok |-> FALSE, error |-> PgNotConfigured])
             ELSE tryBlock(q)

\* The request's record changes to q; a response sent is counted.
Commit(r, q) ==
    /\ reqs' = [reqs EXCEPT ![r] = q]
    /\ nresp' = IF q.pc = "done" THEN nresp + 1 ELSE nresp

Stores == <<we_confirmed, monad_addresses, tableExists>>
Config == <<variant, env, BASE_ADDRESSES, allowlist_addresses>>

\* A request arrives and the handler runs up to its first await.
Receive ==
    /\ Len(reqs) < MaxRequests
    /\ \E in \in Inputs :
         LET q == handlerStart(NewRequest(in))
         IN  /\ reqs' = Append(reqs, q)
             /\ nresp' = IF q.pc = "done" THEN nresp + 1 ELSE nresp
    /\ UNCHANGED <<Stores, Config, Browser, script, Controls>>

\* Faulty variant of the finally block: client.end() is not called.
clientEnd_skipped(conn) == conn

\* finally { await client.end() } when end() returns: the connection is closed.
clientEnd(conn) == "closed"

\* isAllowlisted with a database URL: connect, query inside try, end inside
\* finally, then the rest of the handler's try block up to its next await. The
\* three calls read the table and change nothing but the connection, so they are
\* one step; each of them may throw. When client.end() throws the connection is
\* "lost": the client has given it up without a clean close.
IsAllowlisted(r) ==
    /\ reqs[r].pc = "lookup"
    /\ \/ \* client.connect() throws
          \E e \in Thrown : Commit(r, Catch(Throws(reqs[r]), e, KvFallback))
       \/ \* the query returns, the connection is closed
          Commit(r, afterVerified(
                      [reqs[r] EXCEPT !.conn = clientEnd("open"), !.lookups = @ + 1],
                      allowlistRowCount(reqs[r].normalized) > 0))
       \/ \* the query throws, the connection is closed, the error goes on
          \E e \in Thrown :
            Commit(r, Catch(Throws([reqs[r] EXCEPT !.conn = clientEnd("open"),
                                                    !.lookups = @ + 1]),
                            e, KvFallback))
       \/ \* client.end() throws, after the query returned or threw
          \E e \in Thrown :
            Commit(r, Catch(Throws([reqs[r] EXCEPT !.conn = "lost",
                                                    !.lookups = @ + 1]),
                            e, KvFallback))
    /\ UNCHANGED <<Stores, Config, Browser, script, Controls>>

\* The key of the KV set that kv.sadd writes to.
ConfirmedKey == <<"we:confirmed">>

\* The keys the KV store holds: the set's key once the set has a member.
KvKeys == IF we_confirmed = {} THEN {} ELSE {ConfirmedKey}

\* kv.sadd("we:confirmed", address): the number of members added
saddResult(set, member) == IF member \in set THEN 0 ELSE 1

\* storeConfirmedAddress: await kv.sadd(...); return Number(result) > 0
Sadd(r) ==
    /\ reqs[r].pc = "sadd"
    /\ \/ /\ we_confirmed' = we_confirmed \cup {reqs[r].normalized}
          /\ Commit(r, Send([reqs[r] EXCEPT !.writes = @ + 1], 200,
                            [ok |-> TRUE, verified |-> TRUE,
                             inserted |-> saddResult(we_confirmed, reqs[r].normalized) > 0]))
       \/ /\ \E e \in Thrown :
               Commit(r, Catch(Throws([reqs[r] EXCEPT !.writes = @ + 1]),
                               e, KvFallback))
          /\ UNCHANGED we_confirmed
    /\ UNCHANGED <<monad_addresses, tableExists, Config, Browser, script, Controls>>

\* part_000: await sql`CREATE TABLE IF NOT EXISTS monad_addresses ...`
CreateTable(r) ==
    /\ reqs[r].pc = "create"
    /\ \/ /\ tableExists' = TRUE
          /\ Commit(r, [reqs[r] EXCEPT !.pc = "insert", !.ddl = @ + 1])
       \/ /\ \E e \in Thrown :
               Commit(r, Catch(Throws([reqs[r] EXCEPT !.ddl = @ + 1]),
                               e, PgFallback))
          /\ UNCHANGED tableExists
    /\ UNCHANGED <<we_confirmed, monad_addresses, Config, Browser, script, Controls>>

\* Faulty variant of the INSERT without its ON CONFLICT clause taking effect:
\* a row is inserted and returned whatever the table holds.
insertRowCount_always(table, address) == 1

\* INSERT ... ON CONFLICT (address) DO NOTHING RETURNING id: the rows returned
insertRowCount(table, address) ==
    IF \E i \in 1..Len(table) : table[i].address = address THEN 0 ELSE 1

\* Faulty variant of the INSERT: the new row replaces the table's rows.
insertInto_replace(table, address) == <<[address |-> address]>>

\* INSERT INTO monad_addresses ... ON CONFLICT (address) DO NOTHING: the table
\* after the statement
insertInto(table, address) ==
    IF insertRowCount(table, address) > 0
    THEN Append(table, [address |-> address])
    ELSE table

\* part_000: await sql`INSERT INTO monad_addresses ...`; respond
Insert(r) ==
    /\ reqs[r].pc = "insert"
    /\ \/ LET n == insertRowCount(monad_addresses, reqs[r].address)
          IN  /\ tableExists
              /\ monad_addresses' = insertInto(monad_addresses, reqs[r].address)
              /\ Commit(r, Send([reqs[r] EXCEPT !.writes = @ + 1], 200,
                                [ok |-> TRUE, inserted |-> n > 0]))
       \/ /\ \E e \in Thrown :
               Commit(r, Catch(Throws([reqs[r] EXCEPT !.writes = @ + 1]),
                               e, PgFallback))
          /\ UNCHANGED monad_addresses
    /\ UNCHANGED <<we_confirmed, tableExists, Config, Browser, script, Controls>>

-----------------------------------------------------------------------------
(* The reveal component *)

\* Number of frames a loop renders in one behaviour.
MaxFrames == 2

\* The versions of the component: src/src/components/MouseReveal.tsx (part_001
\* and part_002 load their textures the same way) and the verification variant
\* src/unnamed/part_003.
Components == {"MouseReveal", "part_003"}

\* TOP_IMAGE and UNDER_IMAGE
Images == {"top", "under"}
ImageOf == [top |-> "TOP_IMAGE", under |-> "UNDER_IMAGE"]

\* createPlaceholderTexture(...): topPlaceholder, underPlaceholder
PlaceholderOf == [top |-> "topPlaceholder", under |-> "underPlaceholder"]

NoTexture == "null"

\* The promise of a texture: pending, or resolved with a texture. (A promise of
\* the component is never rejected: both callbacks given to loader.load call
\* resolve.)
Pending == [state |-> "pending", texture |-> NoTexture, loaded |-> FALSE]
Fulfilled(texture, loaded) ==
    [state |-> "fulfilled", texture |-> texture, loaded |-> loaded]

\* MouseReveal.tsx: onLoad resolves { texture, loaded: true }, onError resolves
\* { texture: placeholder, loaded: false }.
loadTextureWithPlaceholder(i) ==
    IF images[i] = "present"
    THEN Fulfilled(ImageOf[i], TRUE)
    ELSE Fulfilled(PlaceholderOf[i], FALSE)

\* part_003: onLoad resolves the texture, onError resolves null. (loaded stands
\* for Boolean(texture).)
loadTexture(i) ==
    IF images[i] = "present"
    THEN Fulfilled(ImageOf[i], TRUE)
    ELSE Fulfilled(NoTexture, FALSE)

NoUniforms == [uTop |-> NoTexture, uUnder |-> NoTexture]

\* The component before its effect runs, in a browser with or without WebGL
\* and with the given image files.
NotMounted(c, w, im) ==
    /\ component = c /\ supportsWebgl = w /\ images = im
    /\ mounted = FALSE /\ pc = "idle"
    /\ textures = [i \in Images |-> Pending]
    /\ uniforms = NoUniforms
    /\ topLoaded = TRUE /\ underLoaded = TRUE /\ useCssFallback = FALSE
    /\ cancelled = FALSE
    /\ scheduled = {} /\ frames = 0 /\ cssFrames = 0
    /\ disposed = {}
    /\ listeners = {}

\* The listeners the effect registers before anything else: MouseReveal.tsx the
\* media query's change and the three pointer events; part_003 the media
\* query's change, and then, only with WebGL, resize and pointermove.
effectListeners ==
    IF component = "MouseReveal"
    THEN {"change", "pointermove", "pointerdown", "pointerup"}
    ELSE IF supportsWebgl THEN {"change", "resize", "pointermove"} ELSE {"change"}

\* Faulty variant of startCssFallbackLoop: the render loop is requested too.
startCssFallbackLoop_twoLoops(loops) == loops \cup {"tick", "animate"}

\* startCssFallbackLoop(): tick() runs and requests its next frame.
startCssFallbackLoop(loops) == loops \cup {"tick"}

\* useEffect: the effect runs. MouseReveal.tsx: initWebGL up to its await; the
\* WebGLRenderer constructor throws without WebGL, and the catch starts the CSS
\* fallback loop, whose tick runs once and requests the next frame. part_003:
\* without WebGL the effect sets useCssFallback and returns.
Mount ==
    /\ ~mounted /\ pc = "idle"
    /\ mounted' = TRUE
    /\ listeners' = listeners \cup effectListeners
    /\ IF supportsWebgl
       THEN /\ pc' = "loading"
            /\ UNCHANGED <<useCssFallback, scheduled, cssFrames>>
       ELSE /\ pc' = "fallback"
            /\ useCssFallback' = TRUE
            /\ IF component = "MouseReveal"
               THEN /\ scheduled' = startCssFallbackLoop(scheduled)
                    /\ cssFrames' = cssFrames + 1
               ELSE UNCHANGED <<scheduled, cssFrames>>
    /\ UNCHANGED <<component, supportsWebgl, images, textures, uniforms, topLoaded,
                   underLoaded, cancelled, frames, disposed, Server, script, Controls>>

\* The loader calls onLoad or onError for image i.
LoadSettles(i) ==
    /\ pc = "loading"
    /\ textures[i].state = "pending"
    /\ textures' = [textures EXCEPT ![i] =
                       IF component = "MouseReveal"
                       THEN loadTextureWithPlaceholder(i)
                       ELSE loadTexture(i)]
    /\ UNCHANGED <<component, supportsWebgl, images, mounted, pc, uniforms,
                   topLoaded, underLoaded, useCssFallback, cancelled, scheduled,
                   frames, cssFrames, disposed, listeners, Server, script, Controls>>

\* The textures in use that are textures (not null).
Held(set) == set \ {NoTexture}

\* After Promise.all: the rest of initWebGL (part_003: the then callback). If
\* the component is gone the textures are disposed. Otherwise the loaded flags
\* are set, and: MouseReveal.tsx builds the material on the two textures,
\* whichever they are, and calls animate(); part_003 does so only if both
\* textures are there, and else sets useCssFallback and returns.
AfterLoad ==
    /\ pc = "loading"
    /\ \A i \in Images : textures[i].state = "fulfilled"
    /\ IF cancelled
       THEN /\ pc' = "cancelled"
            /\ disposed' =
                 IF component = "MouseReveal"
                 THEN disposed \cup {textures[i].texture : i \in Images}
                               \cup {PlaceholderOf[i] : i \in Images}
                               \cup {"renderer"}
                 ELSE disposed \cup Held({textures[i].texture : i \in Images})
            /\ UNCHANGED <<topLoaded, underLoaded, useCssFallback, uniforms,
                           frames, scheduled>>
       ELSE /\ topLoaded' = textures["top"].loaded
            /\ underLoaded' = textures["under"].loaded
            /\ IF /\ component = "part_003"
                  /\ \E i \in Images : textures[i].texture = NoTexture
               THEN /\ useCssFallback' = TRUE
                    /\ pc' = "fallback"
                    /\ UNCHANGED <<uniforms, frames, scheduled>>
               ELSE /\ uniforms' = [uTop |-> textures["top"].texture,
                                    uUnder |-> textures["under"].texture]
                    /\ frames' = frames + 1
                    /\ scheduled' = scheduled \cup {"animate"}
                    /\ pc' = "running"
                    /\ UNCHANGED useCssFallback
            /\ UNCHANGED disposed
    /\ listeners' = IF ~cancelled /\ component = "MouseReveal"
                    THEN listeners \cup {"resize"}
                    ELSE listeners
    /\ UNCHANGED <<component, supportsWebgl, images, mounted, textures, cancelled,
                   cssFrames, Server, script, Controls>>

\* The animation frame callback animate: render and request the next frame.
\* part_003: it returns at once if the component is destroyed.
Animate ==
    /\ "animate" \in scheduled
    /\ IF component = "part_003" /\ cancelled
       THEN scheduled' = scheduled \ {"animate"} /\ UNCHANGED frames
       ELSE /\ frames < MaxFrames
            /\ frames' = frames + 1
            /\ UNCHANGED scheduled
    /\ UNCHANGED <<component, supportsWebgl, images, mounted, pc, textures,
                   uniforms, topLoaded, underLoaded, useCssFallback, cancelled,
                   cssFrames, disposed, listeners, Server, script, Controls>>

\* The animation frame callback tick of the CSS fallback loop.
Tick ==
    /\ "tick" \in scheduled
    /\ cssFrames < MaxFrames
    /\ cssFrames' = cssFrames + 1
    /\ UNCHANGED <<component, supportsWebgl, images, mounted, pc, textures,
                   uniforms, topLoaded, underLoaded, useCssFallback, cancelled,
                   scheduled, frames, disposed, listeners, Server, script, Controls>>

\* The effect's cleanup. MouseReveal.tsx: cancelled = true, the CSS loop's frame
\* is cancelled and cleanupWebGL, set once the render loop runs, cancels its
\* frame and disposes what was created. part_003: destroyed = true and the
\* material, geometry, textures and renderer that exist are disposed; without
\* WebGL the effect returned no cleanup.
Unmount ==
    /\ mounted
    /\ mounted' = FALSE
    /\ IF component = "MouseReveal"
       THEN /\ cancelled' = TRUE
            /\ scheduled' = IF pc = "running" THEN {} ELSE scheduled \ {"tick"}
            /\ disposed' =
                 IF pc = "running"
                 THEN disposed \cup {"geometry", "material", "renderer",
                                     uniforms.uTop, uniforms.uUnder}
                               \cup {PlaceholderOf[i] : i \in Images}
                 ELSE disposed
            /\ listeners' = IF pc = "running"
                            THEN {}
                            ELSE listeners \ {"change", "pointermove", "pointerdown",
                                              "pointerup"}
       ELSE IF ~supportsWebgl
       THEN UNCHANGED <<cancelled, scheduled, disposed, listeners>>
       ELSE /\ cancelled' = TRUE
            /\ listeners' = listeners \ {"resize", "pointermove", "change"}
            /\ disposed' =
                 disposed \cup {"renderer"}
                          \cup (IF pc = "running" THEN {"material", "geometry"} ELSE {})
                          \cup (IF pc \in {"running", "fallback"}
                                THEN Held({textures[i].texture : i \in Images})
                                ELSE {})
            /\ UNCHANGED scheduled
    /\ UNCHANGED <<component, supportsWebgl, images, pc, textures, uniforms,
                   topLoaded, underLoaded, useCssFallback, frames, cssFrames, Server, script, Controls>>

-----------------------------------------------------------------------------
(* The import script *)

\* const BATCH_SIZE = 500
BATCH_SIZE == 500

\* Number of lines of the short input files.
MaxFileLines == 2

\* The long input files fill up to this many whole batches, and one line more.
MaxBatches == 2

\* ADDRESS_REGEX.test(s) of the script, /^0x[a-f0-9]{40}$/i: with the i flag the
\* x and the digits match in either letter case.
ADDRESS_REGEX_i_test(s) ==
    /\ Len(s) = 2 + HexLen
    /\ s[1] = "0"
    /\ toLowerCaseChar(s[2]) = "x"
    /\ \A i \in 3..Len(s) : s[i] \in HexChars

\* Faulty variant of split(",", 1)[0]: the line is taken whole.
beforeComma_whole(line) == line

\* line.split(",", 1)[0]: the text before the first comma
beforeComma(line) ==
    LET commas == {i \in 1..Len(line) : line[i] = ","}
    IN  IF commas = {}
        THEN line
        ELSE SubSeq(line, 1, (CHOOSE i \in commas : \A j \in commas : i <= j) - 1)

\* line.trim().length > 0
nonBlank(line) == Len(trim(line)) > 0

\* line.split(",", 1)[0].trim().toLowerCase()
normalizeLine(line) == toLowerCase(trim(beforeComma(line)))

\* The for loop over the lines: the normalized values that pass the test, in
\* the order of their lines.
validNormalizedOf(lines) ==
    SelectSeq([k \in 1..Len(lines) |-> normalizeLine(lines[k])], ADDRESS_REGEX_i_test)

\* Faulty variant of the deduplication: nothing is removed.
dedupe_none(list) == list

\* [...new Set(list)]: the distinct values in order of first insertion
dedupe(list) ==
    LET indexed == [k \in 1..Len(list) |-> <<k, list[k]>>]
        first == SelectSeq(indexed,
                           LAMBDA p : \A j \in 1..(p[1] - 1) : list[j] # p[2])
    IN  [k \in 1..Len(first) |-> first[k][2]]

\* csvBody, line by line: `address\n${deduped.join("\n")}\n`
csvBody(deduped) == <<<<"a", "d", "d", "r", "e", "s", "s">>>> \o deduped

\* Faulty variant of the slice: batches of BATCH_SIZE + 1 values, the loop still
\* stepping by BATCH_SIZE.
slice_overlapping(list, from, to) ==
    SubSeq(list, from + 1, IF to + 1 < Len(list) THEN to + 1 ELSE Len(list))

\* list.slice(from, to), indices from 0, to excluded
slice(list, from, to) ==
    SubSeq(list, from + 1, IF to < Len(list) THEN to ELSE Len(list))

\* The rows INSERT ... ON CONFLICT (address) DO NOTHING RETURNING address
\* returns: the values of the batch the table did not hold.
batchRowCount(table, batch) ==
    Cardinality({batch[k] : k \in 1..Len(batch)} \ table)

\* The lines of all.txt: addresses in either letter case, with a label after a
\* comma, with the 0X prefix, a malformed one, a blank line, a line that starts
\* with a comma.
FileLines ==
    {AddrA, AddrA_upper, <<" ">> \o AddrB \o <<",", "x", ",", "y">>, UpperX,
     BadDigit, <<" ", "\t">>, <<",">> \o AddrA}

\* The k-th of a run of distinct addresses.
DecimalDigits == <<"0", "1", "2", "3", "4", "5", "6", "7", "8", "9">>
NthAddress(k) ==
    <<"0", "x",
      DecimalDigits[((k \div 1000) % 10) + 1], DecimalDigits[((k \div 100) % 10) + 1],
      DecimalDigits[((k \div 10) % 10) + 1], DecimalDigits[(k % 10) + 1]>>
    \o Zeros(HexLen - 4)
Addresses(n) == [k \in 1..n |-> NthAddress(k)]

\* all.txt: short files of any lines, and long files of distinct addresses
\* around the batch size (one of them with repeated lines at its end).
ShortFiles == UNION {[1..n -> FileLines] : n \in 0..MaxFileLines}
LongFiles ==
    {Addresses(n) : n \in {BATCH_SIZE, BATCH_SIZE + 1, MaxBatches * BATCH_SIZE + 1}}
    \cup {Addresses(BATCH_SIZE) \o <<NthAddress(1), NthAddress(BATCH_SIZE + 1)>>}

\* The machine the script runs on: whether .env.local gives DATABASE_URL and
\* whether the package pg is installed.
Machines == {[envLocal |-> l, pg |-> g] : l, g \in BOOLEAN}

\* The script before it is run.
NotRun == [pc |-> "not run"]

\* The script at the start of main().
Started(file, machine) ==
    [pc |-> "read", file |-> file, machine |-> machine,
     totalLines |-> 0, validNormalized |-> <<>>, deduped |-> <<>>,
     csv |-> <<>>, conn |-> "none", i |-> 0, inserted |-> 0, sent |-> <<>>,
     failed |-> FALSE, log |-> <<>>, exitCode |-> 0]

\* main() rejects: the catch of line 107 sets process.exitCode = 1.
Rejected(sc) == [sc EXCEPT !.pc = "exited", !.exitCode = 1, !.failed = TRUE]

\* await readFile(inputPath) and the synchronous code up to writeFile: the
\* non-blank lines, the valid normalized values, the deduplicated list. The file
\* may be missing.
ReadAndParse ==
    /\ script.pc = "read"
    /\ IF ~script.file.exists
       THEN script' = Rejected(script)
       ELSE LET lines == SelectSeq(script.file.lines, nonBlank)
                valid == validNormalizedOf(lines)
            IN  script' = [script EXCEPT !.pc = "writeCsv",
                                         !.totalLines = Len(lines),
                                         !.validNormalized = valid,
                                         !.deduped = dedupe(valid)]
    /\ UNCHANGED <<Server, Browser, Controls>>

\* await writeFile(csvPath, csvBody): written, or it throws.
WriteCsv ==
    /\ script.pc = "writeCsv"
    /\ \/ script' = [script EXCEPT !.pc = "resolve", !.csv = csvBody(script.deduped)]
       \/ script' = Rejected(script)
    /\ UNCHANGED <<Server, Browser, Controls>>

\* await resolveDatabaseUrl(): process.env.DATABASE_URL, else the one of
\* .env.local, which is put into process.env, else it throws.
ResolveDatabaseUrl ==
    /\ script.pc = "resolve"
    /\ IF env.DATABASE_URL
       THEN script' = [script EXCEPT !.pc = "import"] /\ UNCHANGED env
       ELSE IF script.machine.envLocal
       THEN /\ env' = [env EXCEPT !.DATABASE_URL = TRUE]
            /\ script' = [script EXCEPT !.pc = "import"]
       ELSE script' = Rejected(script) /\ UNCHANGED env
    /\ UNCHANGED <<variant, BASE_ADDRESSES, allowlist_addresses, Stores, reqs, nresp,
                   Browser, Controls>>

\* await import("pg"), new Client(...)
ImportPg ==
    /\ script.pc = "import"
    /\ script' = IF script.machine.pg
                 THEN [script EXCEPT !.pc = "connect"]
                 ELSE Rejected(script)
    /\ UNCHANGED <<Server, Browser, Controls>>

\* The loop's test i < deduped.length: the next statement is a query or the
\* finally block.
loopOrFinally(sc) ==
    [sc EXCEPT !.pc = IF sc.i < Len(sc.deduped) THEN "query" ELSE "finally"]

\* await client.connect(): connected, or it throws.
Connect ==
    /\ script.pc = "connect"
    /\ \/ script' = loopOrFinally([script EXCEPT !.conn = "open"])
       \/ script' = Rejected(script)
    /\ UNCHANGED <<Server, Browser, Controls>>

\* One turn of the for loop: the batch is inserted, or the query throws and
\* control goes to the finally block.
Query ==
    /\ script.pc = "query"
    /\ LET batch == slice(script.deduped, script.i, script.i + BATCH_SIZE)
       IN  \/ /\ allowlist_addresses' =
                    allowlist_addresses \cup {batch[k] : k \in 1..Len(batch)}
              /\ script' = loopOrFinally(
                    [script EXCEPT !.sent = Append(@, batch),
                                   !.inserted = @ + batchRowCount(allowlist_addresses, batch),
                                   !.i = @ + BATCH_SIZE])
           \/ /\ script' = [script EXCEPT !.pc = "finally", !.failed = TRUE]
              /\ UNCHANGED allowlist_addresses
    /\ UNCHANGED <<variant, env, BASE_ADDRESSES, Stores, reqs, nresp, Browser, Controls>>

\* finally { await client.end() }, then the error goes on, or the counts are
\* logged and main() returns. client.end() may throw.
End ==
    /\ script.pc = "finally"
    /\ \/ script' =
            IF script.failed
            THEN Rejected([script EXCEPT !.conn = clientEnd(@)])
            ELSE [script EXCEPT !.conn = clientEnd(@), !.pc = "exited",
                                !.log = <<script.totalLines, Len(script.validNormalized),
                                          Len(script.deduped), script.inserted,
                                          script.totalLines - Len(script.validNormalized)>>]
       \/ script' = Rejected([script EXCEPT !.conn = "lost"])
    /\ UNCHANGED <<Server, Browser, Controls>>

-----------------------------------------------------------------------------
(* The address form *)

\* The submit events the form takes.
MaxSubmits == 2

\* MouseReveal.tsx, part_001 and part_003 (the verification variant)
FormVersions == {"MouseReveal", "part_001", "part_003"}

\* What the user has in the input: nothing, addresses in either letter case,
\* one surrounded by whitespace, malformed ones.
FormInputs == {<<>>, AddrA, AddrA_padded, AddrA_upper, BadDigit, TooLong, UpperX}

\* The form as first rendered: useState(""), useState("idle"), useState(""),
\* no request made, the reveal pulse not running, localStorage without the key.
NewForm(v) ==
    [version |-> v, address |-> <<>>, status |-> "idle", statusMessage |-> "",
     pending |-> <<>>, submits |-> 0, fetches |-> 0, response |-> [kind |-> "none"],
     running |-> FALSE, we_verified_addresses |-> {}]

\* Faulty variant of the test of the input: everything passes.
formAccepts_any(address) == TRUE

\* ADDRESS_REGEX.test(address.trim())
formAccepts(address) == ADDRESS_REGEX_test(trim(address))

\* The message of an input that fails the test.
invalidMessage(v) ==
    CASE v = "MouseReveal" -> "Invalid Monad address"
      [] v = "part_001" -> "Error"
      [] v = "part_003" -> "Invalid address"

\* Faulty variant of the catch block: the error is swallowed.
onRejected_ignored(f, message) == f

\* catch { setStatus("error"); setStatusMessage(...) }: MouseReveal.tsx shows
\* the error's message, the others a fixed text.
onRejected(f, message) ==
    [f EXCEPT !.status = "error",
              !.statusMessage = CASE f.version = "MouseReveal" -> message
                                  [] f.version = "part_001" -> "Error"
                                  [] f.version = "part_003" -> "error"]

\* data[field] is true (the fields read this way are booleans)
isTrue(data, field) == field \in DOMAIN data.v /\ data.v[field]

\* Faulty variant of if (data.verified): always taken.
isVerified_any(data) == TRUE

\* data.verified
isVerified(data) == isTrue(data, "verified")

\* The bodies a response parses to.
Datas ==
    {Null,
     Obj([ok |-> TRUE, verified |-> TRUE, inserted |-> TRUE]),
     Obj([ok |-> TRUE, verified |-> TRUE, inserted |-> FALSE]),
     Obj([ok |-> TRUE, verified |-> FALSE, inserted |-> FALSE]),
     Obj([ok |-> TRUE, inserted |-> TRUE]),
     Obj([ok |-> FALSE, error |-> "Invalid Monad EVM address format."]),
     Obj([ok |-> FALSE]),
     Obj([verified |-> TRUE])}

\* How a request settles: fetch rejects, response.json() rejects, or the body
\* parses, each of the last two with an HTTP status that is 2xx or not.
FetchOutcomes ==
    {[kind |-> "network"]}
    \cup {[kind |-> "unparsable", httpOk |-> b] : b \in BOOLEAN}
    \cup {[kind |-> "json", httpOk |-> b, data |-> d] : b \in BOOLEAN, d \in Datas}

\* The message of the error thrown for a response that is not ok.
notOkMessage(v, data) ==
    IF "error" \in DOMAIN data.v
    THEN data.v.error
    ELSE IF v = "MouseReveal" THEN "Failed to save address" ELSE "Request failed"

\* MouseReveal.tsx and part_001 after the awaits: a response that is not ok is
\* thrown into the catch block, any other one is saved.
afterFetchSave(f, o) ==
    IF o.kind = "network" THEN onRejected(f, "Failed to fetch")
    ELSE IF o.kind = "unparsable" THEN onRejected(f, "Unexpected token in JSON")
    ELSE IF o.data = Null THEN onRejected(f, "Cannot read properties of null")
    ELSE IF ~o.httpOk \/ ~isTrue(o.data, "ok")
    THEN onRejected(f, notOkMessage(f.version, o.data))
    ELSE [f EXCEPT !.status = "saved",
                   !.statusMessage = IF isTrue(o.data, "inserted")
                                     THEN "Saved" ELSE "Already saved"]

\* startVerifiedRevealFromButton: the pulse starts if the root and the button
\* are there.
startVerifiedRevealFromButton(f, attached) ==
    IF attached THEN [f EXCEPT !.running = TRUE] ELSE f

\* part_003 after the awaits: verified, the reveal is started and the address
\* is kept in localStorage (a failure there is ignored); anything else is an
\* error.
afterFetchVerify(f, o, trimmed, attached, storable) ==
    IF o.kind = "network" \/ o.kind = "unparsable" THEN onRejected(f, "")
    ELSE IF o.data = Null THEN onRejected(f, "")
    ELSE IF ~o.httpOk \/ ~isTrue(o.data, "ok")
    THEN [f EXCEPT !.status = "error", !.statusMessage = "error"]
    ELSE IF isVerified(o.data)
    THEN LET saved == [f EXCEPT !.status = "saved",
                                !.statusMessage = "Your address is verified"]
             started == startVerifiedRevealFromButton(saved, attached)
         IN  IF storable
             THEN [started EXCEPT !.we_verified_addresses = @ \cup {toLowerCase(trimmed)}]
             ELSE started
    ELSE [f EXCEPT !.status = "error", !.statusMessage = "error"]

\* The submit event, which the browser does not fire while the submit button is
\* disabled (status "loading"): handleAddressSubmit up to its first await.
HandleAddressSubmit ==
    /\ form.status # "loading"
    /\ form.submits < MaxSubmits
    /\ form' = IF ~formAccepts(form.address)
               THEN [form EXCEPT !.submits = @ + 1,
                                 !.status = "error",
                                 !.statusMessage = invalidMessage(form.version)]
               ELSE [form EXCEPT !.submits = @ + 1,
                                 !.status = "loading",
                                 !.statusMessage = "",
                                 !.fetches = @ + 1,
                                 !.pending = Append(@, trim(form.address))]
    /\ UNCHANGED <<Server, Browser, script, pointer>>

\* The input's onChange: part_003 only stores the value, the others also put a
\* status that is not "idle" back to "idle".
OnChange(value) ==
    /\ value # form.address
    /\ form' = IF form.version # "part_003" /\ form.status # "idle"
               THEN [form EXCEPT !.address = value, !.status = "idle",
                                 !.statusMessage = ""]
               ELSE [form EXCEPT !.address = value]
    /\ UNCHANGED <<Server, Browser, script, pointer>>

\* The k-th request in flight settles and handleAddressSubmit runs to its end.
FetchSettles(k) ==
    /\ k \in 1..Len(form.pending)
    /\ \E o \in FetchOutcomes, attached, storable \in BOOLEAN :
         LET f == [form EXCEPT !.response = o,
                               !.pending = SubSeq(@, 1, k - 1) \o SubSeq(@, k + 1, Len(@))]
         IN  form' = IF form.version = "part_003"
                     THEN afterFetchVerify(f, o, form.pending[k], attached, storable)
                     ELSE afterFetchSave(f, o)
    /\ UNCHANGED <<Server, Browser, script, pointer>>

-----------------------------------------------------------------------------
(* Pointer tracking *)

\* The pointers of the device (mouse, pen, fingers), by pointerId.
MaxPointers == 3
Pointers == 1..MaxPointers

\* Where a pointer is (clientX, clientY taken as one coordinate).
Positions == 0..2

\* No pointer event yet.
NoEvent == [type |-> "none", pointerId |-> 0, tracked |-> FALSE]

\* The handlers' state as the effect sets it up: activePointerIdRef.current
\* null (0 here), not pressed, radius target 118; no pointer is down.
NewPointer ==
    [activePointerId |-> 0, isPressed |-> FALSE, radiusTarget |-> 118,
     pointerTargetUv |-> 0, down |-> {}, last |-> NoEvent]

\* setTargetFromClient(event.clientX, event.clientY)
setTargetFromClient(s, x) == [s EXCEPT !.pointerTargetUv = x]

\* onPointerMove: a move of a pointer other than the active one, when one is
\* active, is dropped.
OnPointerMove(p, x) ==
    /\ pointer' =
          IF pointer.activePointerId # 0 /\ p # pointer.activePointerId
          THEN [pointer EXCEPT !.last = [type |-> "pointermove", pointerId |-> p,
                                         tracked |-> FALSE]]
          ELSE setTargetFromClient(
                 [pointer EXCEPT !.last = [type |-> "pointermove", pointerId |-> p,
                                           tracked |-> TRUE]], x)
    /\ UNCHANGED <<Server, Browser, script, form>>

\* onPointerDown, of a pointer that is up: it becomes the active pointer.
OnPointerDown(p, x) ==
    /\ p \notin pointer.down
    /\ pointer' = setTargetFromClient(
                    [pointer EXCEPT !.down = @ \cup {p},
                                    !.activePointerId = p,
                                    !.isPressed = TRUE,
                                    !.radiusTarget = 178,
                                    !.last = [type |-> "pointerdown", pointerId |-> p,
                                              tracked |-> TRUE]], x)
    /\ UNCHANGED <<Server, Browser, script, form>>

\* onPointerUp, of a pointer that is down: the handler does not look at the
\* event.
OnPointerUp(p) ==
    /\ p \in pointer.down
    /\ pointer' = [pointer EXCEPT !.down = @ \ {p},
                                  !.activePointerId = 0,
                                  !.isPressed = FALSE,
                                  !.radiusTarget = 118,
                                  !.last = [type |-> "pointerup", pointerId |-> p,
                                            tracked |-> FALSE]]
    /\ UNCHANGED <<Server, Browser, script, form>>

\* The page with its form and pointers untouched.
Untouched == form = NewForm("MouseReveal") /\ pointer = NewPointer

-----------------------------------------------------------------------------
(* The endpoint's behaviours *)

Init ==
    /\ Untouched
    /\ NotMounted("MouseReveal", TRUE, [i \in Images |-> "present"])
    /\ script = NotRun
    /\ variant \in Variants
    /\ env \in Envs
    /\ BASE_ADDRESSES \in {{}, {AddrA_padded}}
    /\ allowlist_addresses = BASE_SET
    /\ we_confirmed = {}
    /\ monad_addresses = <<>>
    /\ tableExists = FALSE
    /\ reqs = <<>>
    /\ nresp = 0

Next ==
    \/ Receive
    \/ \E r \in 1..Len(reqs) : IsAllowlisted(r)
    \/ \E r \in 1..Len(reqs) : Sadd(r)
    \/ \E r \in 1..Len(reqs) : CreateTable(r)
    \/ \E r \in 1..Len(reqs) : Insert(r)

Spec == Init /\ [][Next]_vars

\* The awaited part of request r: its pending storage call settles.
Settle(r) ==
    /\ r \in 1..Len(reqs)
    /\ IsAllowlisted(r) \/ Sadd(r) \/ CreateTable(r) \/ Insert(r)

\* Every awaited storage call settles, by returning or by throwing: the promise
\* the handler awaits is resolved or rejected by the client library.
FairSpec == Spec /\ \A r \in 1..MaxRequests : WF_vars(Settle(r))

-----------------------------------------------------------------------------
(* The page's behaviours *)

\* The endpoint with nothing deployed against it yet.
ServerIdle ==
    /\ variant = "kvpg"
    /\ env = EnvOf(TRUE, TRUE, TRUE, TRUE, FALSE)
    /\ BASE_ADDRESSES = {}
    /\ allowlist_addresses = {}
    /\ we_confirmed = {}
    /\ monad_addresses = <<>>
    /\ tableExists = FALSE
    /\ reqs = <<>>
    /\ nresp = 0

RevealInit ==
    /\ Untouched
    /\ ServerIdle
    /\ script = NotRun
    /\ \E c \in Components, w \in BOOLEAN, im \in [Images -> {"present", "missing"}] :
          NotMounted(c, w, im)

RevealNext ==
    \/ Mount
    \/ \E i \in Images : LoadSettles(i)
    \/ AfterLoad
    \/ Animate
    \/ Tick
    \/ Unmount

RevealSpec == RevealInit /\ [][RevealNext]_vars

-----------------------------------------------------------------------------
(* The import script's behaviours *)

\* The script is run on a short file, present or not, on any machine, or on a
\* long file on a machine that has all it needs; the table is empty or holds
\* addresses already.
ImportInit ==
    /\ Untouched
    /\ variant = "kvpg"
    /\ env \in {EnvOf(TRUE, TRUE, TRUE, TRUE, FALSE), EnvOf(TRUE, TRUE, FALSE, FALSE, FALSE)}
    /\ BASE_ADDRESSES = {}
    /\ allowlist_addresses \in {{}, {AddrA, NthAddress(1)}}
    /\ we_confirmed = {}
    /\ monad_addresses = <<>>
    /\ tableExists = FALSE
    /\ reqs = <<>>
    /\ nresp = 0
    /\ NotMounted("MouseReveal", TRUE, [i \in Images |-> "present"])
    /\ \/ \E f \in ShortFiles, m \in Machines :
             script = Started([exists |-> TRUE, lines |-> f], m)
       \/ \E m \in Machines : script = Started([exists |-> FALSE, lines |-> <<>>], m)
       \/ \E f \in LongFiles :
             script = Started([exists |-> TRUE, lines |-> f],
                              [envLocal |-> TRUE, pg |-> TRUE])

ImportNext ==
    \/ ReadAndParse
    \/ WriteCsv
    \/ ResolveDatabaseUrl
    \/ ImportPg
    \/ Connect
    \/ Query
    \/ End

ImportSpec == ImportInit /\ [][ImportNext]_vars

-----------------------------------------------------------------------------
(* The form's behaviours *)

FormInit ==
    /\ ServerIdle
    /\ script = NotRun
    /\ NotMounted("MouseReveal", TRUE, [i \in Images |-> "present"])
    /\ pointer = NewPointer
    /\ \E v \in FormVersions : form = NewForm(v)

FormNext ==
    \/ HandleAddressSubmit
    \/ \E value \in FormInputs : OnChange(value)
    \/ \E k \in 1..MaxSubmits : FetchSettles(k)

FormSpec == FormInit /\ [][FormNext]_vars

\* Every request the browser has sent settles: the fetch promise is fulfilled
\* or rejected.
FairFormSpec == FormSpec /\ WF_vars(\E k \in 1..MaxSubmits : FetchSettles(k))

-----------------------------------------------------------------------------
(* The pointers' behaviours *)

PointerInit ==
    /\ ServerIdle
    /\ script = NotRun
    /\ NotMounted("MouseReveal", TRUE, [i \in Images |-> "present"])
    /\ form = NewForm("MouseReveal")
    /\ pointer = NewPointer

PointerNext ==
    \/ \E p \in Pointers, x \in Positions : OnPointerMove(p, x)
    \/ \E p \in Pointers, x \in Positions : OnPointerDown(p, x)
    \/ \E p \in Pointers : OnPointerUp(p)

PointerSpec == PointerInit /\ [][PointerNext]_vars

-----------------------------------------------------------------------------
(* The endpoint and the import script against one database *)

\* The file of the run that fills the table the endpoint reads.
ConnFiles == {<<AddrA, BadDigit>>}

\* The deployed endpoint of the version that looks the address up in the table,
\* with its database and KV store configured, and a run of the script on a
\* machine that has all it needs.
ConnInit ==
    /\ Untouched
    /\ variant = "kvpg"
    /\ env = EnvOf(TRUE, TRUE, TRUE, TRUE, FALSE)
    /\ BASE_ADDRESSES = {}
    /\ allowlist_addresses = {}
    /\ we_confirmed = {}
    /\ monad_addresses = <<>>
    /\ tableExists = FALSE
    /\ reqs = <<>>
    /\ nresp = 0
    /\ NotMounted("MouseReveal", TRUE, [i \in Images |-> "present"])
    /\ \E f \in ConnFiles :
          script = Started([exists |-> TRUE, lines |-> f],
                           [envLocal |-> TRUE, pg |-> TRUE])

\* The site takes requests once the import has run, whatever its outcome.
ReceiveAfterImport == script.pc = "exited" /\ Receive

ConnNext ==
    \/ ReceiveAfterImport
    \/ \E r \in 1..Len(reqs) : IsAllowlisted(r)
    \/ \E r \in 1..Len(reqs) : Sadd(r)
    \/ ReadAndParse
    \/ WriteCsv
    \/ ResolveDatabaseUrl
    \/ ImportPg
    \/ Connect
    \/ Query
    \/ End

ConnSpec == ConnInit /\ [][ConnNext]_vars

-----------------------------------------------------------------------------
(* What the claims speak of *)

Requests == 1..Len(reqs)

\* The request has been answered.
Answered(r) == reqs[r].pc = "done" /\ Len(reqs[r].res) >= 1
Status(r) == reqs[r].res[1].status
Json(r) == reqs[r].res[1].json
Reports(r, field, value) == field \in DOMAIN Json(r) /\ Json(r)[field] = value

\* r1 was answered before r2 arrived.
Before(r1, r2) == Answered(r1) /\ reqs[r1].respIdx <= reqs[r2].startedAfter

\* r1 and r2 were in the handler at the same time.
Overlap(r1, r2) == r1 # r2 /\ ~Before(r1, r2) /\ ~Before(r2, r1)

\* '0x' followed by exactly HexLen hex digits of either letter case.
MatchesPattern(s) ==
    /\ Len(s) = HexLen + 2
    /\ SubSeq(s, 1, 2) = <<"0", "x">>
    /\ \A i \in 3..Len(s) :
         toLowerCaseChar(s[i]) \in {"0", "1", "2", "3", "4", "5", "6", "7", "8", "9",
                                   "a", "b", "c", "d", "e", "f"}

\* The raw value of the body's address field is a string.
HasRawString(body) ==
    \/ /\ body.t = "object"
       /\ "address" \in DOMAIN body.v
       /\ body.v.address.t = "string"
    \/ /\ body.t = "string"
       /\ body.parse.ok
       /\ body.parse.value.t = "object"
       /\ "address" \in DOMAIN body.parse.value.v
       /\ body.parse.value.v.address.t = "string"

RawString(body) ==
    IF body.t = "object" THEN body.v.address.s ELSE body.parse.value.v.address.s

\* The raw address strings requests carry, and, computed once for each: whether
\* it matches the pattern as it is, whether it does once trimmed, and its
\* trimmed and lowercased form.
RawInputs == {RawString(in.body) : in \in {i \in Inputs : HasRawString(i.body)}}
RawMatching == {s \in RawInputs : MatchesPattern(s)}
TrimmedMatching == {s \in RawInputs : MatchesPattern(trim(s))}
NormalizedOf == [s \in RawInputs |-> toLowerCase(trim(s))]

\* A POST whose address has the valid format once trimmed.
ValidPost(r) ==
    /\ reqs[r].method = "POST"
    /\ HasRawString(reqs[r].body)
    /\ RawString(reqs[r].body) \in TrimmedMatching

\* The normalized form of the address a valid POST submits.
Normalized(r) == NormalizedOf[RawString(reqs[r].body)]

\* The Allowlist Set, whichever backend holds it.
Allowlist == BASE_SET \cup allowlist_addresses

\* The versions of src/api/monad-address.ts (KV confirmed set, allowlist).
KvVersion == variant \in {"kv", "kvpg"}

\* The confirmed-set store of the deployed version lacks its settings.
StoreMisconfigured == IF variant = "pg" THEN ~hasPostgresConfig ELSE ~hasKvConfig

\* The request did no work beyond answering.
NoStorageTouched(r) ==
    reqs[r].lookups = 0 /\ reqs[r].writes = 0 /\ reqs[r].ddl = 0

-----------------------------------------------------------------------------
(* C7 *)

\* C7: every request whose method is not POST is answered with HTTP 405 and
\* ok: false, whatever its body, before any address parsing, allowlist lookup or
\* confirmed-set write.
C7_MethodNotAllowed ==
    \A r \in Requests :
       reqs[r].method # "POST" =>
          /\ Answered(r)
          /\ Len(reqs[r].res) = 1
          /\ Status(r) = 405
          /\ Reports(r, "ok", FALSE)
          /\ ~reqs[r].parsed
          /\ NoStorageTouched(r)

\* A GET carrying a valid, allowlisted address was answered 405.
C7_Witness ==
    \E r \in Requests :
       /\ reqs[r].method = "GET"
       /\ HasRawString(reqs[r].body)
       /\ NormalizedOf[RawString(reqs[r].body)] \in Allowlist
       /\ Answered(r)
       /\ Status(r) = 405

-----------------------------------------------------------------------------
(* C8 *)

\* C8: when the allowlist lookup or the confirmed-set write of a request throws,
\* the request is answered with HTTP 500 and ok: false with an error message,
\* and with nothing else.
C8_StorageFailureIs500 ==
    \A r \in Requests :
       reqs[r].threw =>
          /\ Answered(r)
          /\ Len(reqs[r].res) = 1
          /\ Status(r) = 500
          /\ Reports(r, "ok", FALSE)
          /\ "error" \in DOMAIN Json(r)
          /\ Json(r).error \in {e.message : e \in Thrown} \cup {KvFallback, PgFallback}

\* In the version with both backends the lookup of one request threw and the
\* KV write of another did.
C8_Witness ==
    /\ variant = "kvpg"
    /\ \E r1, r2 \in Requests :
          /\ reqs[r1].threw /\ reqs[r1].writes = 0 /\ Status(r1) = 500
          /\ reqs[r2].threw /\ reqs[r2].writes = 1 /\ Status(r2) = 500

-----------------------------------------------------------------------------
(* C1, C2: insert once *)

\* The request was answered, and not with a server error: none of the failure
\* modes of the storage applied to it.
Served(r) == Answered(r) /\ Status(r) # 500

\* The valid POSTs that submit the address r submits.
SameAddress(r) ==
    {o \in Requests : ValidPost(o) /\ Normalized(o) = Normalized(r)}

\* C1: of two sequential POSTs of the same valid, allowlisted address to the
\* endpoint of src/api/monad-address.ts, the first one ever made and a later
\* one, both are answered 200 with ok: true; the first reports verified: true
\* and inserted: true, the second inserted: false.
C1_TwiceSequential ==
    \A r1, r2 \in Requests :
       ( /\ KvVersion
         /\ ValidPost(r1) /\ ValidPost(r2)
         /\ Normalized(r1) = Normalized(r2)
         /\ Normalized(r1) \in Allowlist
         /\ Served(r1) /\ Served(r2)
         /\ \A o \in SameAddress(r1) \ {r1} : Before(r1, o) )
       => /\ Status(r1) = 200 /\ Reports(r1, "ok", TRUE)
          /\ Reports(r1, "verified", TRUE) /\ Reports(r1, "inserted", TRUE)
          /\ Status(r2) = 200 /\ Reports(r2, "ok", TRUE)
          /\ (r1 # r2 => Reports(r2, "inserted", FALSE))

\* C2: when the POSTs of one valid, allowlisted address overlap in time, exactly
\* one of them reports inserted: true, the others inserted: false, and none is
\* answered with an error.
C2_ConcurrentExactlyOne ==
    \A r \in Requests :
       LET S == SameAddress(r)
       IN  ( /\ ValidPost(r)
             /\ variant = "pg" \/ Normalized(r) \in Allowlist
             /\ \A o \in S : Served(o) /\ reqs[o].address = reqs[r].address
             /\ \E a, b \in S : Overlap(a, b) )
           => /\ \A o \in S : Status(o) = 200 /\ Reports(o, "ok", TRUE)
                              /\ "inserted" \in DOMAIN Json(o)
              /\ Cardinality({o \in S : Reports(o, "inserted", TRUE)}) = 1

-----------------------------------------------------------------------------
(* C3, C4: one record per normalized address *)

\* C3: the persisted confirmed set never holds two records that are equal after
\* lowercasing.
C3_UniqueNormalized ==
    /\ \A a, b \in we_confirmed : toLowerCase(a) = toLowerCase(b) => a = b
    /\ \A i, j \in 1..Len(monad_addresses) :
          toLowerCase(monad_addresses[i].address)
             = toLowerCase(monad_addresses[j].address) => i = j

\* C4: two valid-format addresses that differ only in letter case get the same
\* allowlist decision, and the one submitted after the other was confirmed is
\* reported inserted: false.
C4_CaseInsensitive ==
    \A r1, r2 \in Requests :
       ( /\ ValidPost(r1) /\ ValidPost(r2)
         /\ Normalized(r1) = Normalized(r2)
         /\ RawString(reqs[r1].body) \in RawMatching
         /\ RawString(reqs[r2].body) \in RawMatching
         /\ RawString(reqs[r1].body) # RawString(reqs[r2].body)
         /\ Served(r1) /\ Served(r2) )
       => /\ Reports(r1, "verified", FALSE) <=> Reports(r2, "verified", FALSE)
          /\ (Before(r1, r2) /\ Reports(r1, "inserted", TRUE))
                => Reports(r2, "inserted", FALSE)

-----------------------------------------------------------------------------
(* C5, C6: rejections *)

InvalidFormatAnswer(r) ==
    /\ Answered(r)
    /\ Len(reqs[r].res) = 1
    /\ Status(r) = 400
    /\ Reports(r, "ok", FALSE)
    /\ Reports(r, "error", "Invalid Monad EVM address format.")
    /\ NoStorageTouched(r)

\* C5 as stated: a POST whose raw address value is absent, not a string, or a
\* string that does not itself match the pattern is answered 400 with the
\* format error, without allowlist lookup or write.
C5_RawPatternRejected ==
    \A r \in Requests :
       ( /\ reqs[r].method = "POST"
         /\ ~(HasRawString(reqs[r].body) /\ RawString(reqs[r].body) \in RawMatching) )
       => InvalidFormatAnswer(r)

\* C5 amended: a POST whose raw address value is absent, not a string, or a
\* string that after trimming surrounding whitespace does not match the pattern
\* is answered 400 with the format error, without allowlist lookup or write.
C5_TrimmedPatternRejected ==
    \A r \in Requests :
       (reqs[r].method = "POST" /\ ~ValidPost(r)) => InvalidFormatAnswer(r)

\* A POST with a string of 41 digits and a POST without a string were rejected.
C5_Witness ==
    \E r1, r2 \in Requests :
       /\ reqs[r1].method = "POST" /\ HasRawString(reqs[r1].body)
       /\ RawString(reqs[r1].body) = TooLong
       /\ Status(r1) = 400
       /\ reqs[r2].method = "POST" /\ ~HasRawString(reqs[r2].body)
       /\ Status(r2) = 400

\* C6: a POST of a valid-format address whose normalized form is not in the
\* allowlist is answered 400 with ok: false and verified: false, and writes
\* nothing to the confirmed set (versions with an allowlist).
C6_NotAllowlistedRejected ==
    \A r \in Requests :
       ( /\ KvVersion
         /\ ValidPost(r)
         /\ Normalized(r) \notin Allowlist
         /\ Served(r) )
       => /\ Status(r) = 400
          /\ Reports(r, "ok", FALSE)
          /\ Reports(r, "verified", FALSE)
          /\ reqs[r].writes = 0

-----------------------------------------------------------------------------
(* C9, C10: error mapping *)

\* C9: with the confirmed-set store misconfigured, a POST of a valid,
\* allowlisted address is answered 500 with ok: false.
C9_MisconfiguredIsError ==
    \A r \in Requests :
       ( /\ StoreMisconfigured
         /\ ValidPost(r)
         /\ variant = "pg" \/ Normalized(r) \in Allowlist
         /\ Answered(r) )
       => Status(r) = 500 /\ Reports(r, "ok", FALSE)

\* C10: every response of src/api/monad-address.ts has status 200, 400, 405 or
\* 500; ok is true exactly when it is 200; 200 only for a valid, allowlisted
\* address, 400 only for a validation or allowlist failure, 405 only for a
\* wrong method, 500 only for a storage failure.
C10_StatusContract ==
    \A r \in Requests :
       (KvVersion /\ Answered(r)) =>
          /\ Status(r) \in {200, 400, 405, 500}
          /\ "ok" \in DOMAIN Json(r)
          /\ Json(r).ok <=> Status(r) = 200
          /\ Status(r) = 200 => ValidPost(r) /\ Normalized(r) \in Allowlist
          /\ Status(r) = 400 =>
                /\ reqs[r].method = "POST"
                /\ ~ValidPost(r) \/ Normalized(r) \notin Allowlist
          /\ Status(r) = 405 => reqs[r].method # "POST"
          /\ Status(r) = 500 => reqs[r].threw

-----------------------------------------------------------------------------
(* C11 *)

\* The handler answered r at most once and repeated none of its storage calls.
AtMostOnce(r) ==
    /\ Len(reqs[r].res) <= 1
    /\ reqs[r].pc = "done" <=> Len(reqs[r].res) = 1
    /\ reqs[r].lookups <= 1
    /\ reqs[r].writes <= 1
    /\ reqs[r].ddl <= 1

\* C11: every request that reaches the handler is eventually answered, and
\* answered exactly once: no error of body parsing, allowlist lookup or store
\* write leaves the handler, no failed call is repeated, no second response is
\* sent. (An answer stays, so "again and again every request received so far
\* has its one answer" says that each request gets it.)
C11_ExactlyOneResponse ==
    /\ [](\A r \in Requests : AtMostOnce(r))
    /\ []<>(\A r \in Requests : Answered(r) /\ Len(reqs[r].res) = 1)

\* A POST with an unparsable body was answered once, and so was a POST whose
\* store write threw.
C11_Witness ==
    \E r1, r2 \in Requests :
       /\ reqs[r1].method = "POST" /\ reqs[r1].body = Text(SyntaxError)
       /\ Answered(r1) /\ Len(reqs[r1].res) = 1
       /\ reqs[r2].threw /\ reqs[r2].writes = 1
       /\ Answered(r2) /\ Len(reqs[r2].res) = 1

-----------------------------------------------------------------------------
(* C12 *)

\* The storage writes request r has issued: the confirmed-set insert and any
\* other statement that changes the store.
WritesIssued(r) == reqs[r].writes + reqs[r].ddl

\* The format validation and the allowlist check of request r have passed.
ChecksPassed(r) ==
    /\ ValidPost(r)
    /\ reqs[r].lookups = 1
    /\ Normalized(r) \in Allowlist

\* C12: a request issues at most one write to persistent storage, the
\* confirmed-set insert, only after its format validation and its allowlist
\* check have passed, and no other write with it.
C12_SingleWrite ==
    \A r \in Requests :
       /\ WritesIssued(r) <= 1
       /\ reqs[r].ddl = 0
       /\ WritesIssued(r) > 0 => ChecksPassed(r)

-----------------------------------------------------------------------------
(* C13 *)

\* Every record of the confirmed set is in the set after the step, unchanged:
\* the members of the KV set, the rows of the table in their places.
RecordsKept ==
    /\ we_confirmed \subseteq we_confirmed'
    /\ Len(monad_addresses) <= Len(monad_addresses')
    /\ \A i \in 1..Len(monad_addresses) : monad_addresses'[i] = monad_addresses[i]

\* C13: the confirmed set only grows: a record that is in the persisted
\* confirmed set is still there, unmodified, after every step, whatever requests
\* follow.
C13_OnlyGrows == [][RecordsKept]_vars

\* A record was created by one request, and a request that arrived after that
\* one's answer has made its own write.
C13_Witness ==
    \E r1, r2 \in Requests :
       /\ Before(r1, r2)
       /\ Reports(r1, "inserted", TRUE)
       /\ Answered(r2) /\ reqs[r2].writes = 1 /\ Status(r2) = 200
       /\ we_confirmed # {} \/ monad_addresses # <<>>

-----------------------------------------------------------------------------
(* C14 *)

\* The addresses of the persisted confirmed set, whichever store holds it.
Persisted == we_confirmed \cup {monad_addresses[i].address : i \in 1..Len(monad_addresses)}

\* C14: every address in the persisted confirmed set was a member of the
\* allowlist when it was inserted (the allowlist does not change while the
\* endpoint runs): no request for an address that is not allowlisted creates a
\* record.
C14_PersistedWasAllowlisted ==
    \A a \in Persisted : toLowerCase(a) \in Allowlist

-----------------------------------------------------------------------------
(* C15 *)

\* '0x' followed by exactly HexLen lowercase hex digits.
Canonical(a) == MatchesPattern(a) /\ toLowerCase(a) = a

\* The address request r hands to the allowlist lookup and to the store: the
\* lowercased one in src/api/monad-address.ts, the parsed one in part_000.
PassedOn(r) == IF variant = "pg" THEN reqs[r].address ELSE reqs[r].normalized

\* C15: every address persisted in the confirmed set is in canonical form,
\* '0x' followed by exactly 40 lowercase hex digits, and the handler never
\* passes an address that is not lowercased to the allowlist lookup or to the
\* store.
C15_CanonicalPersisted ==
    /\ \A a \in Persisted : Canonical(a)
    /\ \A r \in Requests :
          (reqs[r].lookups > 0 \/ reqs[r].writes > 0) => Canonical(PassedOn(r))

-----------------------------------------------------------------------------
(* C16 *)

\* The allowlist lookup of request r gave its answer (it did not throw).
MembershipAnswered(r) ==
    /\ reqs[r].lookups = 1
    /\ reqs[r].threw => reqs[r].writes > 0

\* The responses the handler gives to request r when membership is answered by
\* the static compiled set.
StaticSetResponses(r) ==
    IF Normalized(r) \notin BASE_SET
    THEN {notVerifiedResponse}
    ELSE IF ~hasKvConfig
    THEN {[status |-> 200, json |-> [ok |-> TRUE, verified |-> TRUE, inserted |-> FALSE]]}
    ELSE {[status |-> 200, json |-> [ok |-> TRUE, verified |-> TRUE, inserted |-> b]] :
             b \in BOOLEAN}
         \cup {catchResponse(e, KvFallback) : e \in Thrown}

\* C16: the allowlist check is backend-independent: the table and the static
\* set holding the same addresses, a request whose membership is answered by
\* the relational lookup (database URL configured) gets a response the handler
\* gives when the static compiled set answers (no database URL).
C16_BackendIndependent ==
    \A r \in Requests :
       (/\ KvVersion
        /\ allowlist_addresses = BASE_SET
        /\ ValidPost(r) /\ Answered(r)
        /\ MembershipAnswered(r))
       => reqs[r].res[1] \in StaticSetResponses(r)

\* Both answers of the relational lookup have been given: an allowlisted
\* address was confirmed, another address was refused.
C16_Witness ==
    /\ variant = "kvpg" /\ getDatabaseUrl
    /\ \E r1, r2 \in Requests :
          /\ ValidPost(r1) /\ Answered(r1) /\ MembershipAnswered(r1)
          /\ reqs[r1].conn = "closed" /\ Reports(r1, "verified", TRUE)
          /\ ValidPost(r2) /\ Answered(r2) /\ MembershipAnswered(r2)
          /\ reqs[r2].conn = "closed" /\ Reports(r2, "verified", FALSE)

-----------------------------------------------------------------------------
(* C17 *)

\* Two requests equal in all the handler reads of a request.
SameRequest(r1, r2) ==
    reqs[r1].method = reqs[r2].method /\ reqs[r1].body = reqs[r2].body

\* The two answers are equal, the inserted flag left aside.
SameAnswerButInserted(r1, r2) ==
    /\ Status(r1) = Status(r2)
    /\ DOMAIN Json(r1) = DOMAIN Json(r2)
    /\ \A f \in DOMAIN Json(r1) \ {"inserted"} : Json(r1)[f] = Json(r2)[f]

\* C17: requests are handled statelessly: the answer is determined by the
\* request, the allowlist and the confirmed set at the time of handling. Two
\* handlings of equal requests whose storage calls all returned give equal
\* answers; they differ at most in the inserted flag, and then the confirmed
\* set was not the same for both: it holds the address one of them added.
C17_Stateless ==
    \A r1, r2 \in Requests :
       (/\ SameRequest(r1, r2)
        /\ Answered(r1) /\ Answered(r2)
        /\ ~reqs[r1].threw /\ ~reqs[r2].threw)
       => /\ SameAnswerButInserted(r1, r2)
          /\ Json(r1) # Json(r2) =>
                /\ Reports(r1, "inserted", TRUE) \/ Reports(r2, "inserted", TRUE)
                /\ PassedOn(r1) \in Persisted

\* Equal requests were handled one after the other, both up to their answer,
\* each made its write, and the second found the address the first had added.
C17_Witness ==
    \E r1, r2 \in Requests :
       /\ r1 # r2 /\ SameRequest(r1, r2) /\ Before(r1, r2) /\ Answered(r2)
       /\ ~reqs[r1].threw /\ ~reqs[r2].threw
       /\ reqs[r1].writes = 1 /\ reqs[r2].writes = 1
       /\ Json(r1) # Json(r2)

-----------------------------------------------------------------------------
(* C18 *)

\* The rows of monad_addresses that hold address a.
RowsOf(a) == {i \in 1..Len(monad_addresses) : monad_addresses[i].address = a}

\* C18: in the Postgres-backed endpoint the table monad_addresses is created,
\* if absent, before any insert is attempted, and inserting an address that is
\* already there is no error: the request is answered HTTP 200 with ok: true and
\* inserted: false, and the table still holds one row for that address.
C18_CreateThenInsertOnce ==
    variant = "pg" =>
       /\ \A r \in Requests :
             (reqs[r].pc = "insert" \/ reqs[r].writes > 0)
             => reqs[r].ddl = 1 /\ tableExists
       /\ monad_addresses # <<>> => tableExists
       /\ \A r1, r2 \in Requests :
             (/\ Before(r1, r2) /\ Reports(r1, "inserted", TRUE)
              /\ reqs[r2].address = reqs[r1].address
              /\ Answered(r2) /\ ~reqs[r2].threw /\ reqs[r2].writes = 1)
             => /\ Status(r2) = 200
                /\ Reports(r2, "ok", TRUE) /\ Reports(r2, "inserted", FALSE)
                /\ Cardinality(RowsOf(reqs[r2].address)) = 1
       /\ \A i \in 1..Len(monad_addresses) :
             Cardinality(RowsOf(monad_addresses[i].address)) = 1

\* An address was inserted, and a later request has inserted it again.
C18_Witness ==
    /\ variant = "pg"
    /\ \E r1, r2 \in Requests :
          /\ Before(r1, r2) /\ Reports(r1, "inserted", TRUE)
          /\ reqs[r2].address = reqs[r1].address
          /\ Answered(r2) /\ reqs[r2].writes = 1 /\ reqs[r2].ddl = 1
          /\ Reports(r2, "inserted", FALSE)
          /\ Len(monad_addresses) = 1

-----------------------------------------------------------------------------
(* C19 *)

\* The key monad:addr:<address>.
AddrKey(a) == <<"monad:addr:", a>>

\* C19: the KV-backed endpoint stores every confirmed address in the KV key
\* space monad:addr:<address>, one key per address.
C19_KeyPerAddress ==
    KvVersion =>
       /\ \A a \in we_confirmed : AddrKey(a) \in KvKeys
       /\ Cardinality(KvKeys) = Cardinality(we_confirmed)

-----------------------------------------------------------------------------
(* C20 *)

\* The texture the reveal is to show for image i: the image, or its gradient
\* placeholder if the file cannot be loaded.
TextureFor(i) == IF images[i] = "present" THEN ImageOf[i] ELSE PlaceholderOf[i]

\* The WebGL initialisation has come to its end with the component in place.
StartedUp == supportsWebgl /\ pc \in {"running", "fallback"}

\* C20: if either of the two reveal images fails to load the component still
\* runs: no texture promise is rejected, and once start-up is through the
\* missing image is replaced by its gradient placeholder and the render loop
\* has started as usual (a frame rendered, the next one requested for as long
\* as the component is mounted), not the fallback.
C20_PlaceholderStartup ==
    (\E i \in Images : images[i] = "missing") =>
       /\ \A i \in Images : textures[i].state \in {"pending", "fulfilled"}
       /\ StartedUp =>
             /\ pc = "running" /\ ~useCssFallback
             /\ uniforms = [uTop |-> TextureFor("top"), uUnder |-> TextureFor("under")]
             /\ frames >= 1
             /\ mounted => "animate" \in scheduled

-----------------------------------------------------------------------------
(* C21 *)

\* The text of a line before its first comma: its longest prefix without one.
TextBeforeComma(line) ==
    LET n == CHOOSE n \in 0..Len(line) :
                /\ \A i \in 1..n : line[i] # ","
                /\ n = Len(line) \/ line[n + 1] = ","
    IN  SubSeq(line, 1, n)

\* The entry a line stands for.
EntryOf(line) == toLowerCase(trim(TextBeforeComma(line)))

\* The elements of a list.
Range(list) == {list[k] : k \in 1..Len(list)}

\* The first place of a in a list that holds it.
FirstPlace(list, a) ==
    LET places == {l \in 1..Len(list) : list[l] = a}
    IN  CHOOSE l \in places : \A m \in places : l <= m

\* list holds the entries of the lines that have the form of an address, those
\* only, each once, in the order in which they first occur.
IsImportOf(list, lines) ==
    LET entries == [l \in 1..Len(lines) |-> EntryOf(lines[l])] \o <<>>
    IN  /\ Range(list) = {e \in Range(entries) : Canonical(e)}
        /\ Cardinality(Range(list)) = Len(list)
        /\ \A k \in 1..(Len(list) - 1) :
              FirstPlace(entries, list[k]) < FirstPlace(entries, list[k + 1])

\* C21: the import script writes to the CSV and sends to the relational store
\* only entries that, after taking the text before the first comma, trimming
\* and lowercasing, match '0x' + 40 hex digits; each such address appears
\* exactly once, in first-occurrence order; invalid lines are skipped and the
\* run goes on.
C21_ImportsValidOnce ==
    (script.file.exists /\ script.pc # "read") =>
       /\ IsImportOf(script.deduped, script.file.lines)
       /\ script.csv \in {<<>>, <<<<"a", "d", "d", "r", "e", "s", "s">>>> \o script.deduped}
       /\ \A b \in 1..Len(script.sent) : Range(script.sent[b]) \subseteq Range(script.deduped)

\* A run over a file with a malformed line and a labelled address has written
\* the CSV and sent the address.
C21_Witness ==
    /\ script.file.exists
    /\ BadDigit \in Range(script.file.lines)
    /\ \E l \in Range(script.file.lines) : "," \in Range(l) /\ Canonical(EntryOf(l))
    /\ Len(script.csv) = 2
    /\ script.sent = <<script.deduped>>
    /\ script.pc = "exited" /\ script.exitCode = 0

-----------------------------------------------------------------------------
(* C22 *)

\* The batches sent so far, one after the other.
RECURSIVE Flatten(_)
Flatten(batches) ==
    IF batches = <<>> THEN <<>> ELSE Head(batches) \o Flatten(Tail(batches))

\* The loop went through without a query throwing.
LoopCompleted == script.pc \in {"finally", "exited"} /\ script.conn # "none" /\ ~script.failed

\* The number of rows the table held when the script started.
RowsAtStart == {0, 2}

\* C22: the INSERT batches the import script has sent are consecutive slices of
\* the deduplicated list, in order: each holds 1 to 500 addresses, all but the
\* last hold 500, and together they are the start of the list, the whole list
\* once the loop has gone through, so no address is left out or sent twice.
\* An address the table already held is not an error: the query succeeds, the
\* table holds every address sent, and only the new rows are counted.
C22_BatchesAreSlices ==
    LET all == Flatten(script.sent)
    IN  /\ \A b \in 1..Len(script.sent) : Len(script.sent[b]) \in 1..BATCH_SIZE
        /\ \A b \in 1..(Len(script.sent) - 1) : Len(script.sent[b]) = BATCH_SIZE
        /\ Len(all) <= Len(script.deduped)
        /\ all = SubSeq(script.deduped, 1, Len(all))
        /\ LoopCompleted => all = script.deduped
        /\ Range(all) \subseteq allowlist_addresses
        /\ Cardinality(allowlist_addresses) - script.inserted \in RowsAtStart

\* A run over more than MaxBatches whole batches has ended well, its last batch
\* shorter than the others, with an address of the file in the table beforehand.
C22_Witness ==
    /\ script.pc = "exited"
    /\ script.exitCode = 0
    /\ Len(script.sent) = MaxBatches + 1
    /\ Len(script.sent[Len(script.sent)]) < BATCH_SIZE
    /\ script.inserted < Len(script.deduped)

-----------------------------------------------------------------------------
(* C23 *)

\* The states a connection is in once the operation that opened it is over and
\* client.end() has been called on it: closed, or lost when end() itself threw.
Ended == {"closed", "lost"}

\* C23: no database connection is left open when the operation that opened it
\* finishes. A request that has been answered holds no open connection, and if
\* its lookup ran a query, whether the query returned or threw, client.end()
\* was called on its connection; the import script that has exited holds no
\* open connection, and if it connected, client.end() was called, whether its
\* queries returned or one of them threw.
C23_ConnectionsClosed ==
    /\ \A r \in Requests :
         Answered(r) =>
            /\ reqs[r].conn \in {"none"} \cup Ended
            /\ reqs[r].lookups > 0 => reqs[r].conn \in Ended
    /\ script.pc = "exited" =>
            /\ script.conn \in {"none"} \cup Ended
            /\ (script.sent # <<>> \/ script.log # <<>>) => script.conn \in Ended

\* The script has exited after a query threw, its connection closed; one
\* request was answered after its query threw and another after its query
\* returned, the connection of each closed.
C23_Witness ==
    /\ script.pc = "exited" /\ script.failed /\ script.conn = "closed"
    /\ \E r1, r2 \in Requests :
          /\ Answered(r1) /\ reqs[r1].threw /\ reqs[r1].conn = "closed"
          /\ Answered(r2) /\ ~reqs[r2].threw /\ reqs[r2].conn = "closed"

-----------------------------------------------------------------------------
(* C24 *)

\* The step is a submit event; the step sends a request.
Submitted == form'.submits = form.submits + 1
RequestSent == form'.fetches # form.fetches \/ Len(form'.pending) > Len(form.pending)

\* The input's text matches the address pattern once trimmed.
InputMatches == MatchesPattern(trim(form.address))

\* C24: in every version of the form a request is sent only by a submit event
\* whose input, trimmed, matches ^0x[a-fA-F0-9]{40}$, and what is sent is the
\* trimmed input; a submit event with any other input sets the status to
\* 'error' in that same step, never 'loading', and sends nothing.
C24_OnlyValidInputSent ==
    [][/\ RequestSent =>
            /\ Submitted
            /\ InputMatches
            /\ form'.status = "loading"
            /\ form'.pending = Append(form.pending, trim(form.address))
       /\ (Submitted /\ ~InputMatches) =>
            /\ form'.status = "error"
            /\ form'.fetches = form.fetches
            /\ form'.pending = form.pending]_vars

\* Of two submit events one sent a request and the other, with an input that
\* does not match, was refused with the message of a malformed address.
C24_Witness ==
    /\ form.submits = 2
    /\ form.fetches = 1
    /\ ~InputMatches
    /\ form.status = "error"
    /\ form.statusMessage \in {"Invalid Monad address", "Invalid address", "Error"}

-----------------------------------------------------------------------------
(* C25 *)

\* C25: at most one request of the form is in flight at any time, and the
\* status is 'loading', the submit button disabled, for as long as one is.
C25_OneRequestInFlight ==
    /\ Len(form.pending) <= 1
    /\ form.pending # <<>> => form.status = "loading"

-----------------------------------------------------------------------------
(* C26 *)

\* The step is a request settling.
Settled == Len(form'.pending) < Len(form.pending)

\* C26: a form in status 'loading' leaves it, and the step in which a
\* request settles, by a success response, an error response, a network failure
\* or an unparsable body, always ends in status 'saved' or 'error'.
C26_LoadingEnds ==
    /\ [][Settled => form'.status \in {"saved", "error"}]_vars
    /\ (form.status = "loading") ~> (form.status # "loading")

\* The one request made has settled on a body that does not parse, and the
\* status is 'error'.
C26_Witness ==
    /\ form.fetches = 1
    /\ form.pending = <<>>
    /\ form.response.kind = "unparsable"
    /\ form.status = "error"

-----------------------------------------------------------------------------
(* C27 *)

\* The response was HTTP-successful and its body has ok and verified true.
VerifiedResponse(o) ==
    /\ o.kind = "json"
    /\ o.httpOk
    /\ o.data # Null
    /\ {"ok", "verified"} \subseteq DOMAIN o.data.v
    /\ o.data.v.ok
    /\ o.data.v.verified

\* C27: in the verification variant a request that settles on an
\* HTTP-successful response with ok and verified true sets the status to
\* 'saved' with the message 'Your address is verified'; one that settles in any
\* other way sets the status to 'error'; the reveal pulse is started by no
\* other step than the first kind, and the status becomes 'saved' in no other.
C27_VerifiedOnly ==
    [][form.version = "part_003" =>
          /\ Settled =>
               IF VerifiedResponse(form'.response)
               THEN /\ form'.status = "saved"
                    /\ form'.statusMessage = "Your address is verified"
               ELSE /\ form'.status = "error"
                    /\ form'.running = form.running
          /\ (form'.running # form.running \/ (form'.status = "saved" /\ form.status # "saved"))
                => (Settled /\ VerifiedResponse(form'.response))]_vars

\* The verification variant has started the reveal for a verified address, and
\* then a second request was answered with verified false.
C27_Witness ==
    /\ form.version = "part_003"
    /\ form.running
    /\ form.fetches = 2
    /\ form.pending = <<>>
    /\ form.response.kind = "json" /\ form.response.httpOk
    /\ form.response.data = Obj([ok |-> TRUE, verified |-> FALSE, inserted |-> FALSE])
    /\ form.status = "error"

-----------------------------------------------------------------------------
(* C28 *)

\* C28: the handlers hold the pressed state, with radius target 178, exactly
\* while some pointer that went down has not come up; once every pointer is up
\* the radius target is 118 and no pointer is active; and a pointermove that
\* arrives while pointers are held down moves the reveal target only if it
\* comes from one of them.
C28_PressedWhileHeld ==
    /\ pointer.isPressed <=> pointer.down # {}
    /\ pointer.radiusTarget = IF pointer.down # {} THEN 178 ELSE 118
    /\ pointer.down = {} => pointer.activePointerId = 0
    /\ (pointer.last.type = "pointermove" /\ pointer.last.tracked /\ pointer.down # {})
          => pointer.last.pointerId \in pointer.down

-----------------------------------------------------------------------------
(* C29 *)

\* The component was mounted and is not any more.
Unmounted == ~mounted /\ pc # "idle"

\* What the component has created so far: the renderer (and, in
\* MouseReveal.tsx, the two placeholder textures) when the browser has WebGL,
\* the textures the loader delivered, and the geometry and the material once
\* the render loop was set up.
Created ==
    IF ~supportsWebgl \/ pc = "idle"
    THEN {}
    ELSE {"renderer"}
         \cup (IF component = "MouseReveal" THEN {PlaceholderOf[i] : i \in Images} ELSE {})
         \cup Held({textures[i].texture : i \in Images})
         \cup (IF pc = "running" THEN {"geometry", "material"} ELSE {})

\* The frame callback, if it runs, renders and requests the next frame.
Renders(callback) == ~(callback = "animate" /\ component = "part_003" /\ cancelled)

\* C29: once the component is unmounted no animation frame callback that would
\* render or request another frame is left scheduled, every event listener the
\* component registered is removed, and everything it created (renderer,
\* textures, geometry, material) is disposed, textures still loading at the
\* unmount as soon as their loading has ended.
C29_CleanAfterUnmount ==
    Unmounted =>
       /\ \A callback \in scheduled : ~Renders(callback)
       /\ listeners = {}
       /\ pc # "loading" => Created \subseteq disposed

-----------------------------------------------------------------------------
(* C30 *)

\* WebGL initialisation failed: the renderer could not be constructed.
WebglInitFailed == mounted' /\ ~supportsWebgl

\* C30: in MouseReveal.tsx at most one animation loop is scheduled at any time;
\* the CSS fallback loop is scheduled only after WebGL initialisation failed, it
\* is started by no step but the one in which the initialisation fails, and the
\* render loop is never scheduled in a browser where it runs.
C30_OneLoop ==
    /\ [](component = "MouseReveal" =>
            /\ Cardinality(scheduled) <= 1
            /\ "tick" \in scheduled => (~supportsWebgl /\ pc = "fallback" /\ useCssFallback)
            /\ cssFrames > 0 => (~supportsWebgl /\ frames = 0 /\ "animate" \notin scheduled))
    /\ [][(component = "MouseReveal" /\ "tick" \in scheduled' /\ "tick" \notin scheduled)
             => (~mounted /\ WebglInitFailed /\ cssFrames = 0)]_vars

\* The CSS fallback loop of MouseReveal.tsx has run its frames with no render
\* loop beside it.
C30_Witness ==
    /\ component = "MouseReveal"
    /\ scheduled = {"tick"}
    /\ cssFrames = MaxFrames
    /\ frames = 0

=============================================================================
